---- MODULE Spec2Model ----
(***************************************************************************)
(* A model of drain's spacetime aggregation engine (src/aggregate.py):     *)
(* the snapshot store written by SpacetimeAggregator.write_date, the       *)
(* readers read_date and read, and the string utilities parse_delta and    *)
(* get_spacetime_prefix.                                                   *)
(*                                                                         *)
(*   Spec       write_date run step by step by concurrent workers (one     *)
(*              process per date, src/bin/aggregate.py), with a reader     *)
(*   SpecRead   the sequential program: write_date, read_date, read        *)
(*   SpecPrefix get_spacetime_prefix over generated column names           *)
(*   SpecDelta  parse_delta over bounded strings                           *)
(***************************************************************************)
EXTENDS Integers, Sequences, FiniteSets, TLC

VARIABLES
    store,      \* file name -> content of the file (the hdf snapshot files)
    dirExists,  \* whether self.dirname is a directory
    wpc,        \* worker -> position inside write_date
    wdate,      \* worker -> the date argument of its write_date
    wdf,        \* worker -> the frame self.aggregate(date) returned
    wpre,       \* worker -> the snapshot of its date when write_date was called
    lastAgg,    \* date -> the frame of the last write_date(date) that returned
    ret,        \* what the operation that has just run returned
    arg,        \* input of the string utility under check
    out         \* its result

vars == <<store, dirExists, wpc, wdate, wdf, wpre, lastAgg, ret, arg, out>>

----------------------------------------------------------------------------
(* Configuration of the aggregator: SpacetimeAggregator.__init__           *)

RangeOf(s) == { s[i] : i \in 1..Len(s) }

\* self.dates, each date as (year, month, day)
DateList == << <<2012, 1, 1>>, <<2012, 1, 2>> >>

Dates == RangeOf(DateList)

Workers == { "w1", "w2" }

Ids == { 1, 2 }

prefix == "tests"

\* space_name -> Spacedeltas(spatial_index, delta_strings)
spacedeltas ==
    [ A |-> [spatial_index |-> "ia", deltas |-> {"1y", "all"}],
      B |-> [spatial_index |-> "ib", deltas |-> {"1y", "all"}] ]

Spaces == DOMAIN spacedeltas

\* the metric columns of the frames aggregate returns
Metrics == { "count" }

\* the metrics whose dtype the subclass declares in self.dtypes
dtypes == { "count" }

dirname == <<"basedir", prefix>>

\* d.strftime('%Y%m') : the mutant of strftime that drops the day
strftime_noday(d) == d[1] * 100 + d[2]

\* d.strftime('%Y%m%d') : eight digits, read as a number
strftime(d) == d[1] * 10000 + d[2] * 100 + d[3]

\* self.filenames[d]
filenames(d) == <<dirname, strftime(d)>>

FileNames == { filenames(d) : d \in Dates }

----------------------------------------------------------------------------
(* Frames: a DataFrame is the sequence of its rows                         *)

Row(i, d, s, dl, c) == [id |-> i, date |-> d, space |-> s, delta |-> dl, count |-> c]

\* The frames self.aggregate(d) may return (the method is abstract: these
\* are the inputs of the model). One frame leaves (space, delta)
\* combinations out, one holds a full cross product, one a single row.
AggTables(d) ==
    { << Row(1, d, "A", "1y", 1), Row(2, d, "B", "all", 1) >>,
      << Row(1, d, "A", "1y", 2), Row(1, d, "B", "1y", 2) >>,
      << Row(2, d, "A", "1y", 3) >> }

NoFrame == << >>

----------------------------------------------------------------------------
(* The snapshot store: one hdf file per date                               *)

Absent == [exists |-> FALSE, complete |-> FALSE, rows |-> NoFrame]

\* a file opened with mode='w' and not closed yet holds the rows written so far
Partial(rows) == [exists |-> TRUE, complete |-> FALSE, rows |-> rows]

Complete(df) == [exists |-> TRUE, complete |-> TRUE, rows |-> df]

\* to_hdf with mode='a' and append: the frame is added to the file's rows
to_hdf_append(prev, df) == Complete(prev.rows \o df)

\* df.to_hdf(filename, key='df', mode='w') once it has returned: the file
\* holds df, whatever it held before
to_hdf(prev, df) == Complete(df)

Snapshot(d) == store[filenames(d)]

NoDate == <<0, 0, 0>>

----------------------------------------------------------------------------
(* left: the entity-date universe handed to read and read_date             *)

\* left=None
NoLeft == [given |-> FALSE, rows |-> << >>]

LeftRow(d, a, b) == [date |-> d, ia |-> a, ib |-> b]

LeftRows == { LeftRow(d, a, b) : d \in Dates, a \in Ids, b \in Ids }

MaxLeft == 1

RECURSIVE SeqsUpTo(_, _)
\* the sequences over S of length at most n
SeqsUpTo(S, n) ==
    IF n = 0 THEN { << >> }
    ELSE LET shorter == SeqsUpTo(S, n - 1)
         IN  shorter \cup { Append(q, x) : q \in { t \in shorter : Len(t) = n - 1 }, x \in S }

Lefts == { [given |-> TRUE, rows |-> q] : q \in SeqsUpTo(LeftRows, MaxLeft) } \cup { NoLeft }

\* left[left.date == date]
LeftOn(left, d) == SelectSeq(left.rows, LAMBDA r : r.date = d)

\* left[self.spacedeltas[space].spatial_index].unique()
Values(leftd, space) == { leftd[i][spacedeltas[space].spatial_index] : i \in 1..Len(leftd) }

----------------------------------------------------------------------------
(* read_date                                                               *)

\* read_hdf that takes a missing file for an empty frame
read_hdf_skip(file) ==
    IF ~file.exists \/ file.complete THEN { [status |-> "ok", rows |-> file.rows] }
    ELSE { [status |-> "HDF5Error", rows |-> NoFrame],
           [status |-> "ok", rows |-> file.rows] }

\* pd.read_hdf(filename, key='df'): the possible outcomes. A missing file
\* raises IOError; a file another process has open for writing either
\* fails to parse or yields the rows written so far.
read_hdf(file) ==
    IF ~file.exists THEN { [status |-> "IOError", rows |-> NoFrame] }
    ELSE IF file.complete THEN { [status |-> "ok", rows |-> file.rows] }
    ELSE { [status |-> "HDF5Error", rows |-> NoFrame],
           [status |-> "ok", rows |-> file.rows] }

\* the loop of read_date over self.spacedeltas: each pass drops, from the
\* whole frame, the rows whose id is not among that space's values
DropNotInLeft(df, leftd) ==
    SelectSeq(df, LAMBDA r : \A space \in Spaces : r.id \in Values(leftd, space))

\* df['date'] = date
SetDate(df, d) == [i \in 1..Len(df) |-> [df[i] EXCEPT !.date = d]]

\* read_date that reads the file before it looks at left
read_date_eager(d, left) ==
    { [status |-> h.status,
       df |-> IF h.status = "ok" /\ ~(left.given /\ Len(LeftOn(left, d)) = 0)
              THEN SetDate(IF left.given THEN DropNotInLeft(h.rows, LeftOn(left, d)) ELSE h.rows, d)
              ELSE NoFrame,
       touched |-> { filenames(d) }] : h \in read_hdf(store[filenames(d)]) }

\* read_date(date, left): the set of its possible results
read_date(d, left) ==
    IF left.given /\ Len(LeftOn(left, d)) = 0
    THEN { [status |-> "ok", df |-> NoFrame, touched |-> {}] }
    ELSE { [status |-> h.status,
            df |-> IF h.status = "ok"
                   THEN SetDate(IF left.given THEN DropNotInLeft(h.rows, LeftOn(left, d))
                                ELSE h.rows, d)
                   ELSE NoFrame,
            touched |-> { filenames(d) }] : h \in read_hdf(store[filenames(d)]) }

----------------------------------------------------------------------------
(* read                                                                    *)

RECURSIVE read_loop(_, _)
\* for d in self.dates: dfs.append(self.read_date(d, left)), then pd.concat:
\* the first read_date that raises ends the call
read_loop(ds, left) ==
    IF ds = << >> THEN { [status |-> "ok", df |-> NoFrame, touched |-> {}] }
    ELSE UNION {
           IF h.status # "ok" THEN { h }
           ELSE { [status |-> t.status,
                   df |-> IF t.status = "ok" THEN h.df \o t.df ELSE NoFrame,
                   touched |-> h.touched \cup t.touched] : t \in read_loop(Tail(ds), left) }
           : h \in read_date(Head(ds), left) }

\* '{0}_{1}_{2}_{3}'.format(self.prefix, space, delta, column)
ColumnName(column, space, delta) == prefix \o "_" \o space \o "_" \o delta \o "_" \o column

Missing == [nan |-> TRUE, value |-> 0]

Value(v) == [nan |-> FALSE, value |-> v]

NoPanel == [columns |-> {}, cells |-> << >>]

\* the pivot of read. hasColumns is false when every frame of dfs is the
\* column-less pd.DataFrame() read_date returns for a date left has no rows of
pivot(df, hasColumns) ==
    LET keys     == { <<df[i].id, df[i].date, df[i].space, df[i].delta>> : i \in 1..Len(df) }
        \* the columns of df.unstack(['space', 'delta']): the combinations in the rows
        unstacked == { <<m, df[i].space, df[i].delta>> : m \in Metrics, i \in 1..Len(df) }
        \* product(*df.columns.levels)
        columns  == Metrics \X { df[i].space : i \in 1..Len(df) } \X { df[i].delta : i \in 1..Len(df) }
        index    == { <<df[i].id, df[i].date>> : i \in 1..Len(df) }
        cell(k, c) == LET at == { i \in 1..Len(df) :
                                    <<df[i].id, df[i].date, df[i].space, df[i].delta>> = <<k[1], k[2], c[2], c[3]>> }
                      IN  IF at = {} THEN Missing ELSE Value(df[CHOOSE i \in at : TRUE][c[1]])
    IN  IF ~hasColumns
          THEN [status |-> "KeyError", panel |-> NoPanel]       \* set_index: no column 'id'
        ELSE IF Cardinality(keys) # Len(df)
          THEN [status |-> "ValueError", panel |-> NoPanel]     \* unstack: duplicate entries
        ELSE IF \E c \in columns : c[1] \in dtypes /\ c \notin unstacked
          THEN [status |-> "KeyError", panel |-> NoPanel]       \* df[c] of a column df has not
        ELSE IF Cardinality(columns) # Cardinality(unstacked)
          THEN [status |-> "ValueError", panel |-> NoPanel]     \* df.columns = [...]: length mismatch
        ELSE [status |-> "ok",
              panel |-> [columns |-> { ColumnName(c[1], c[2], c[3]) : c \in columns },
                         cells |-> [k \in index |->
                                     [n \in { ColumnName(c[1], c[2], c[3]) : c \in columns } |->
                                        cell(k, CHOOSE c \in columns : ColumnName(c[1], c[2], c[3]) = n)]]]]

\* read(left, pivot): the set of its possible results
read(left, pvt) ==
    { IF r.status # "ok" \/ ~pvt
      THEN [status |-> r.status, df |-> r.df, panel |-> NoPanel, touched |-> r.touched]
      ELSE LET p == pivot(r.df, ~left.given \/ \E d \in Dates : Len(LeftOn(left, d)) > 0)
           IN  [status |-> p.status, df |-> NoFrame, panel |-> p.panel, touched |-> r.touched]
      : r \in read_loop(DateList, left) }

NoRet == [op |-> "none", date |-> NoDate, left |-> NoLeft, pivot |-> FALSE,
          status |-> "none", df |-> NoFrame, panel |-> NoPanel, touched |-> {}]

----------------------------------------------------------------------------
(* write_date, step by step                                                *)

Active(w) == wpc[w] # "idle"

\* a process is started for write_date(d); one process per date at a time
Call(w, d) ==
    /\ wpc[w] = "idle"
    /\ \A v \in Workers : Active(v) => wdate[v] # d
    /\ wpc' = [wpc EXCEPT ![w] = "aggregate"]
    /\ wdate' = [wdate EXCEPT ![w] = d]
    /\ wpre' = [wpre EXCEPT ![w] = Snapshot(d)]
    /\ lastAgg' = [lastAgg EXCEPT ![d] = [valid |-> FALSE, rows |-> NoFrame]]
    /\ ret' = NoRet
    /\ UNCHANGED <<store, dirExists, wdf, arg, out>>

\* df = self.aggregate(date)
Aggregate(w) ==
    /\ wpc[w] = "aggregate"
    /\ \E df \in AggTables(wdate[w]) : wdf' = [wdf EXCEPT ![w] = df]
    /\ wpc' = [wpc EXCEPT ![w] = "isdir"]
    /\ ret' = NoRet
    /\ UNCHANGED <<store, dirExists, wdate, wpre, lastAgg, arg, out>>

\* self.aggregate(date) raises
AggregateRaises(w) ==
    /\ wpc[w] = "aggregate"
    /\ wpc' = [wpc EXCEPT ![w] = "raised_aggregate"]
    /\ ret' = NoRet
    /\ UNCHANGED <<store, dirExists, wdate, wdf, wpre, lastAgg, arg, out>>

\* if not os.path.isdir(self.dirname):
IsDir(w) ==
    /\ wpc[w] = "isdir"
    /\ wpc' = [wpc EXCEPT ![w] = IF dirExists THEN "open" ELSE "mkdir"]
    /\ ret' = NoRet
    /\ UNCHANGED <<store, dirExists, wdate, wdf, wpre, lastAgg, arg, out>>

\* os.mkdir(self.dirname): raises OSError when the directory exists
MkDir(w) ==
    /\ wpc[w] = "mkdir"
    /\ IF dirExists
       THEN /\ wpc' = [wpc EXCEPT ![w] = "raised_mkdir"]
            /\ UNCHANGED dirExists
       ELSE /\ wpc' = [wpc EXCEPT ![w] = "open"]
            /\ dirExists' = TRUE
    /\ ret' = NoRet
    /\ UNCHANGED <<store, wdate, wdf, wpre, lastAgg, arg, out>>

\* df.to_hdf(filename, key='df', mode='w'): the file is created or truncated
Open(w) ==
    /\ wpc[w] = "open"
    /\ store' = [store EXCEPT ![filenames(wdate[w])] = Partial(NoFrame)]
    /\ wpc' = [wpc EXCEPT ![w] = "write"]
    /\ ret' = NoRet
    /\ UNCHANGED <<dirExists, wdate, wdf, wpre, lastAgg, arg, out>>

\* to_hdf writes the frame into the open file
WriteRow(w) ==
    /\ wpc[w] = "write"
    /\ LET f == filenames(wdate[w])
           n == Len(store[f].rows)
       IN  /\ n < Len(wdf[w])
           /\ store' = [store EXCEPT ![f] = Partial(SubSeq(wdf[w], 1, n + 1))]
    /\ ret' = NoRet
    /\ UNCHANGED <<dirExists, wpc, wdate, wdf, wpre, lastAgg, arg, out>>

\* to_hdf closes the file and write_date returns
Close(w) ==
    /\ wpc[w] = "write"
    /\ LET f == filenames(wdate[w])
       IN  /\ Len(store[f].rows) = Len(wdf[w])
           /\ store' = [store EXCEPT ![f] = to_hdf(wpre[w], wdf[w])]
    /\ wpc' = [wpc EXCEPT ![w] = "done"]
    /\ lastAgg' = [lastAgg EXCEPT ![wdate[w]] = [valid |-> TRUE, rows |-> wdf[w]]]
    /\ ret' = NoRet
    /\ UNCHANGED <<dirExists, wdate, wdf, wpre, arg, out>>

\* to_hdf raises while the file is open (disk full, a value it cannot store)
WriteRaises(w) ==
    /\ wpc[w] = "write"
    /\ wpc' = [wpc EXCEPT ![w] = "raised_write"]
    /\ ret' = NoRet
    /\ UNCHANGED <<store, dirExists, wdate, wdf, wpre, lastAgg, arg, out>>

\* the process of bin/aggregate.py exits
Exit(w) ==
    /\ wpc[w] \in { "done", "raised_aggregate", "raised_mkdir", "raised_write" }
    /\ wpc' = [wpc EXCEPT ![w] = "idle"]
    /\ wdate' = [wdate EXCEPT ![w] = NoDate]
    /\ wdf' = [wdf EXCEPT ![w] = NoFrame]
    /\ wpre' = [wpre EXCEPT ![w] = Absent]
    /\ ret' = NoRet
    /\ UNCHANGED <<store, dirExists, lastAgg, arg, out>>

\* a reader calls read_date(d) while the workers run (from a state a step
\* of a worker has reached: a read changes nothing a later read depends on)
ReadDateNoLeft(d) ==
    /\ ret = NoRet
    /\ \E r \in read_date(d, NoLeft) :
          ret' = [NoRet EXCEPT !.op = "read_date", !.date = d, !.status = r.status,
                               !.df = r.df, !.touched = r.touched]
    /\ UNCHANGED <<store, dirExists, wpc, wdate, wdf, wpre, lastAgg, arg, out>>

InitStore ==
    /\ store = [f \in FileNames |-> Absent]
    /\ dirExists = FALSE
    /\ lastAgg = [d \in Dates |-> [valid |-> FALSE, rows |-> NoFrame]]
    /\ ret = NoRet

InitWorkers ==
    /\ wpc = [w \in Workers |-> "idle"]
    /\ wdate = [w \in Workers |-> NoDate]
    /\ wdf = [w \in Workers |-> NoFrame]
    /\ wpre = [w \in Workers |-> Absent]

InitStrings ==
    /\ arg = << >>
    /\ out = << >>

Init == InitStore /\ InitWorkers /\ InitStrings

Next ==
    \/ \E w \in Workers, d \in Dates : Call(w, d)
    \/ \E w \in Workers : Aggregate(w)
    \/ \E w \in Workers : AggregateRaises(w)
    \/ \E w \in Workers : IsDir(w)
    \/ \E w \in Workers : MkDir(w)
    \/ \E w \in Workers : Open(w)
    \/ \E w \in Workers : WriteRow(w)
    \/ \E w \in Workers : Close(w)
    \/ \E w \in Workers : WriteRaises(w)
    \/ \E w \in Workers : Exit(w)
    \/ \E d \in Dates : ReadDateNoLeft(d)

Spec == Init /\ [][Next]_vars

----------------------------------------------------------------------------
(* The sequential program: write_date, read_date and read, one at a time   *)

Idle == \A w \in Workers : wpc[w] = "idle"

\* write_date(d) from call to return, aggregate having returned df
WriteDate(d) ==
    /\ Idle
    /\ \E df \in AggTables(d) :
          /\ store' = [store EXCEPT ![filenames(d)] = to_hdf(Snapshot(d), df)]
          /\ lastAgg' = [lastAgg EXCEPT ![d] = [valid |-> TRUE, rows |-> df]]
    /\ dirExists' = TRUE
    /\ ret' = NoRet
    /\ UNCHANGED <<wpc, wdate, wdf, wpre, arg, out>>

\* write_date(d) whose to_hdf raises with n rows written: the file stays
\* as the failed call left it
WriteDateRaises(d) ==
    /\ Idle
    /\ \E df \in AggTables(d) : \E n \in 0..Len(df) :
          store' = [store EXCEPT ![filenames(d)] = Partial(SubSeq(df, 1, n))]
    /\ lastAgg' = [lastAgg EXCEPT ![d] = [valid |-> FALSE, rows |-> NoFrame]]
    /\ dirExists' = TRUE
    /\ ret' = NoRet
    /\ UNCHANGED <<wpc, wdate, wdf, wpre, arg, out>>

\* read_date(d, left). The readers leave the store as it is, so the states
\* one read reaches after another are those it reaches after the write
\* before it: a read is taken from there only.
ReadDate(d, left) ==
    /\ Idle /\ ret = NoRet
    /\ \E r \in read_date(d, left) :
          ret' = [NoRet EXCEPT !.op = "read_date", !.date = d, !.left = left,
                               !.status = r.status, !.df = r.df, !.touched = r.touched]
    /\ UNCHANGED <<store, dirExists, wpc, wdate, wdf, wpre, lastAgg, arg, out>>

\* read(left, pivot)
Read(left, pvt) ==
    /\ Idle /\ ret = NoRet
    /\ \E r \in read(left, pvt) :
          ret' = [NoRet EXCEPT !.op = "read", !.left = left, !.pivot = pvt,
                               !.status = r.status, !.df = r.df, !.panel = r.panel,
                               !.touched = r.touched]
    /\ UNCHANGED <<store, dirExists, wpc, wdate, wdf, wpre, lastAgg, arg, out>>

NextRead ==
    \/ \E d \in Dates : WriteDate(d)
    \/ \E d \in Dates : WriteDateRaises(d)
    \/ \E d \in Dates, left \in Lefts : ReadDate(d, left)
    \/ \E left \in Lefts, pvt \in BOOLEAN : Read(left, pvt)

SpecRead == Init /\ [][NextRead]_vars

----------------------------------------------------------------------------
(* Claims about the snapshot store under concurrent workers (Spec)         *)

\* C1 (as claimed): at every moment the stored snapshot of a date is absent
\* or a complete snapshot (the one before the running write_date or the new
\* one), and a write_date whose to_hdf raised has left the prior snapshot
\* as it was.
C1_SnapshotAtomic ==
    /\ \A d \in Dates : Snapshot(d) = Absent \/ Snapshot(d).complete
    /\ \A w \in Workers :
          /\ wpc[w] \in { "open", "write" } =>
                Snapshot(wdate[w]) \in { wpre[w], Complete(wdf[w]) }
          /\ wpc[w] = "raised_write" => Snapshot(wdate[w]) = wpre[w]

\* C2 (as claimed): write_date calls for distinct dates run by separate
\* workers never fail on the directory, and each call that has returned
\* left the snapshot a sequential run leaves: the frame it aggregated.
C2_ParallelWritesSucceed ==
    \A w \in Workers :
        /\ wpc[w] # "raised_mkdir"
        /\ wpc[w] = "done" => Snapshot(wdate[w]) = Complete(wdf[w])

\* C4: the snapshot of a date e changes only in a step of a write_date(e)
\* whose aggregate has returned: a write_date whose aggregate raises
\* changes no snapshot, and write_date(d) changes no snapshot but d's.
C4_WriteFrame ==
    [][ \A e \in Dates :
          Snapshot(e)' # Snapshot(e) =>
            \E w \in Workers : /\ wdate[w] = e
                                /\ wpc[w] \in { "open", "write" }
                                /\ wdf[w] \in AggTables(e) ]_vars

\* C4 witness: the aggregate of a write_date(d) has raised while d and
\* another date hold complete snapshots.
C4_Witness ==
    \E w \in Workers :
        /\ wpc[w] = "raised_aggregate"
        /\ Snapshot(wdate[w]).complete
        /\ \E e \in Dates : e # wdate[w] /\ Snapshot(e).complete

----------------------------------------------------------------------------
(* Claims about read_date and read (SpecRead)                              *)

\* the dates read has to load: all of them without left, else those left has rows of
Loaded(left) == { d \in Dates : ~left.given \/ Len(LeftOn(left, d)) > 0 }

\* C3 (as claimed): read, with or without left, fails with the
\* storage-not-found error whenever a configured date has no snapshot.
C3_ReadFailsOnAnyMissing ==
    (ret.op = "read" /\ \E d \in Dates : ~Snapshot(d).exists) => ret.status = "IOError"

\* C3 (amended): read does not return when a configured date that left is
\* absent for, or has a row of, has no snapshot file: it raises, and the
\* error is the storage-not-found error unless the file of another such
\* date is one a failed write left incomplete; a read that returns has
\* read the file of every such date.
C3_ReadFailsOnLoadedMissing ==
    ret.op = "read" =>
        /\ (\E d \in Loaded(ret.left) : ~Snapshot(d).exists) =>
              /\ ret.status \notin { "ok", "none" }
              /\ \/ ret.status = "IOError"
                 \/ \E e \in Loaded(ret.left) : Snapshot(e).exists /\ ~Snapshot(e).complete
        /\ ret.status = "ok" => \A d \in Loaded(ret.left) : filenames(d) \in ret.touched

\* C3 witness: read with a left that has a row of a date without snapshot
\* has failed although the other date has one.
C3_Witness ==
    /\ ret.op = "read" /\ ret.left.given /\ ret.status = "IOError"
    /\ \E d \in Loaded(ret.left) : ~Snapshot(d).exists
    /\ \E d \in Dates : Snapshot(d).complete

\* C5: read_date(d, left) with no row of left for d returns the empty
\* frame and touches no file, with or without a snapshot for d.
C5_ShortCircuit ==
    (ret.op = "read_date" /\ ret.left.given /\ Len(LeftOn(ret.left, ret.date)) = 0)
        => (ret.status = "ok" /\ ret.df = NoFrame /\ ret.touched = {})

\* C5 witness: such a read_date has run for a date whose snapshot exists,
\* with a left that has a row of another date.
C5_Witness ==
    /\ ret.op = "read_date" /\ ret.left.given
    /\ Len(LeftOn(ret.left, ret.date)) = 0 /\ Len(ret.left.rows) > 0
    /\ Snapshot(ret.date).exists

\* C6 (as claimed): read_date(d, left) keeps a snapshot row of scope s
\* exactly when its id is among the values of the spatial-index column of
\* s in the rows of left for d.
C6_FilterPerScope ==
    (ret.op = "read_date" /\ ret.left.given /\ ret.status = "ok"
       /\ Len(LeftOn(ret.left, ret.date)) > 0 /\ Snapshot(ret.date).complete)
    => LET snap == Snapshot(ret.date).rows
       IN  \A i \in 1..Len(snap) :
              ([snap[i] EXCEPT !.date = ret.date] \in RangeOf(ret.df))
                <=> (snap[i].id \in Values(LeftOn(ret.left, ret.date), snap[i].space))

\* the long frame read loads without left: the snapshots of the dates, in order
RECURSIVE Unioned(_)
Unioned(ds) == IF ds = << >> THEN NoFrame ELSE Snapshot(Head(ds)).rows \o Unioned(Tail(ds))

\* C8 (as claimed): with a complete snapshot for every date, read(pivot=True) succeeds,
\* its columns are one per element of the cross product of the spaces,
\* deltas and metrics in the unioned snapshots, and every (id, date) of
\* the snapshots keeps its row.
C8_PivotCrossProduct ==
    (ret.op = "read" /\ ret.pivot /\ ~ret.left.given /\ \A d \in Dates : Snapshot(d).complete)
    => LET u == Unioned(DateList)
       IN  /\ ret.status = "ok"
           /\ ret.panel.columns =
                 { ColumnName(m, u[i].space, u[j].delta) : m \in Metrics, i \in 1..Len(u), j \in 1..Len(u) }
           /\ DOMAIN ret.panel.cells = { <<u[i].id, u[i].date>> : i \in 1..Len(u) }

----------------------------------------------------------------------------
(* get_spacetime_prefix over the column names read generates. Strings are  *)
(* sequences of characters here.                                           *)

MaxNameLen == 3

NameChars == { "a", "_" }

\* prefixes, space names and metric names: non-empty strings that neither
\* start nor end with an underscore ('tests', 'industry_state')
Names == { n \in SeqsUpTo(NameChars, MaxNameLen) : Len(n) > 0 /\ n[1] # "_" /\ n[Len(n)] # "_" }

\* delta strings parse_delta accepts
DeltaStrings == { <<"1", "y">>, <<"a", "l", "l">> }

\* '{0}_{1}_{2}_{3}'.format(self.prefix, space, delta, column)
FormatColumn(pre, space, delta, column) ==
    pre \o <<"_">> \o space \o <<"_">> \o delta \o <<"_">> \o column

\* the first position j >= pos of s that holds an underscore, 0 if none
NextUnderscore(s, pos) ==
    LET at == { j \in pos..Len(s) : s[j] = "_" }
    IN  IF at = {} THEN 0 ELSE CHOOSE j \in at : \A k \in at : j <= k

RECURSIVE MatchFields(_, _, _)
\* ([^_]+_){n} matched at pos: the position of its last character, -1 if
\* it does not match ([^_]+ takes every character up to the next underscore)
MatchFields(s, pos, n) ==
    IF n = 0 THEN pos - 1
    ELSE LET j == NextUnderscore(s, pos)
         IN  IF j = 0 \/ j = pos THEN -1 ELSE MatchFields(s, j + 1, n - 1)

\* spacetime_prefix_regex.findall(column)[0][0], the regex being
\* '^(([^_]+_){3})': IndexError when the regex does not match
get_spacetime_prefix(column) ==
    LET e == MatchFields(column, 1, 3)
    IN  IF e = -1 THEN [status |-> "IndexError", value |-> << >>]
        ELSE [status |-> "ok", value |-> SubSeq(column, 1, e)]

NoOut == [status |-> "none", value |-> << >>]

InitPrefix ==
    /\ InitStore /\ InitWorkers
    /\ arg \in [prefix : Names, space : Names, delta : DeltaStrings, metric : Names]
    /\ out = NoOut

\* get_spacetime_prefix of the column name generated for arg
GetPrefix ==
    /\ out = NoOut
    /\ out' = get_spacetime_prefix(FormatColumn(arg.prefix, arg.space, arg.delta, arg.metric))
    /\ UNCHANGED <<store, dirExists, wpc, wdate, wdf, wpre, lastAgg, ret, arg>>

NextPrefix == GetPrefix

SpecPrefix == InitPrefix /\ [][NextPrefix]_vars

\* C9 (as claimed): get_spacetime_prefix of the generated column name is
\* {prefix}_{space}_{delta}_ for every prefix, space, delta and metric name,
\* those with an underscore in the prefix or the space name included.
C9_PrefixInverse ==
    out # NoOut =>
        /\ out.status = "ok"
        /\ out.value = arg.prefix \o <<"_">> \o arg.space \o <<"_">> \o arg.delta \o <<"_">>

----------------------------------------------------------------------------
(* parse_delta over bounded strings                                        *)

MaxDeltaLen == 3

DeltaInputChars == { "0", "1", "y", "w", "M", "x", "a", "l", "\n" }

Digits == { "0", "1", "2", "3", "4", "5", "6", "7", "8", "9" }

DigitValue(c) == CHOOSE v \in 0..9 : <<"0", "1", "2", "3", "4", "5", "6", "7", "8", "9">>[v + 1] = c

\* delta_chars
delta_chars ==
    [ y |-> "years", m |-> "months", w |-> "weeks", d |-> "days", h |-> "hours",
      M |-> "minutes", s |-> "seconds", u |-> "microseconds" ]

\* the unit alternatives of delta_regex: (u|s|M|h|d|m|y)
delta_regex_units == { "u", "s", "M", "h", "d", "m", "y" }

RECURSIVE int(_)
\* int(digits)
int(digits) ==
    IF digits = << >> THEN 0
    ELSE 10 * int(SubSeq(digits, 1, Len(digits) - 1)) + DigitValue(digits[Len(digits)])

\* delta_regex.findall(s), the regex being '^([0-9]+)(u|s|M|h|d|m|y)$': the
\* list of (count, unit) matches, at most one. $ also matches before a
\* newline that ends the string.
delta_regex_findall(s) ==
    LET t == IF Len(s) > 0 /\ s[Len(s)] = "\n" THEN SubSeq(s, 1, Len(s) - 1) ELSE s
    IN  IF /\ Len(t) >= 2
           /\ \A i \in 1..(Len(t) - 1) : t[i] \in Digits
           /\ t[Len(t)] \in delta_regex_units
        THEN << <<SubSeq(t, 1, Len(t) - 1), t[Len(t)]>> >>
        ELSE << >>

NoDelta == [status |-> "none", unbounded |-> FALSE, unit |-> "", n |-> 0]

\* parse_delta(s): None for 'all', relativedelta(unit=n), or ValueError
parse_delta(s) ==
    IF s = <<"a", "l", "l">>
    THEN [NoDelta EXCEPT !.status = "ok", !.unbounded = TRUE]
    ELSE LET l == delta_regex_findall(s)
         IN  IF Len(l) = 1
             THEN [NoDelta EXCEPT !.status = "ok", !.unit = delta_chars[l[1][2]], !.n = int(l[1][1])]
             ELSE [NoDelta EXCEPT !.status = "ValueError"]

InitDelta ==
    /\ InitStore /\ InitWorkers
    /\ arg \in SeqsUpTo(DeltaInputChars, MaxDeltaLen)
    /\ out = NoDelta

\* parse_delta(arg)
ParseDelta ==
    /\ out = NoDelta
    /\ out' = parse_delta(arg)
    /\ UNCHANGED <<store, dirExists, wpc, wdate, wdf, wpre, lastAgg, ret, arg>>

NextDelta == ParseDelta

SpecDelta == InitDelta /\ [][NextDelta]_vars

\* C10 (as claimed): parse_delta returns the unbounded marker for 'all',
\* a duration of n of the named unit for a non-negative integer n followed
\* by exactly one unit character of y, m, w, d, h, M, s, u, and fails with
\* the parse error for every other string.
C10_ParseDelta ==
    out # NoDelta =>
        IF arg = <<"a", "l", "l">>
        THEN out.status = "ok" /\ out.unbounded
        ELSE IF /\ Len(arg) >= 2
                /\ \A i \in 1..(Len(arg) - 1) : arg[i] \in Digits
                /\ arg[Len(arg)] \in DOMAIN delta_chars
             THEN /\ out.status = "ok" /\ ~out.unbounded
                  /\ out.unit = delta_chars[arg[Len(arg)]]
                  /\ out.n = int(SubSeq(arg, 1, Len(arg) - 1))
             ELSE out.status = "ValueError"

----------------------------------------------------------------------------
(* aggregate(df, columns, weight, index) over small tables                 *)

MaxRows == 2

\* a row of the table handed to aggregate: a group key and two value columns
TableRows == [g : { "a", "b" }, x : { 0, 1, 3 }, w : { 0, 2 }]

Tables == SeqsUpTo(TableRows, MaxRows)

\* the keys of one aggregate definition
DefKeys(nu, de, fu) ==
    (IF nu THEN { "numerator" } ELSE {}) \cup (IF de THEN { "denominator" } ELSE {})
        \cup (IF fu # "absent" THEN { "func" } ELSE {})

\* one aggregate definition: {'numerator': 'x', 'denominator': 'w', 'func': fu},
\* each key present or not
MetricDef(nu, de, fu) ==
    [key \in DefKeys(nu, de, fu) |->
        IF key = "numerator" THEN "x" ELSE IF key = "denominator" THEN "w" ELSE fu]

\* the columns argument: one metric, m
ColumnSpecs ==
    { [m |-> MetricDef(nu, de, fu)] : nu \in BOOLEAN, de \in BOOLEAN, fu \in { "absent", "sum", "max" } }

\* weight=None, or a scalar weight
NoWeight == [given |-> FALSE, value |-> 1]

Weights == { NoWeight, [given |-> TRUE, value |-> 2] }

\* index=None, or the name of the grouping column
NoIndex == [given |-> FALSE, column |-> ""]

Indexes == { NoIndex, [given |-> TRUE, column |-> "g"] }

\* a / b of two float series elements: a number n/d, or inf, -inf, nan
Quotient(a, b) ==
    IF b # 0 THEN [kind |-> "num", n |-> a, d |-> b]
    ELSE IF a = 0 THEN [kind |-> "nan", n |-> 0, d |-> 0]
    ELSE IF a > 0 THEN [kind |-> "inf", n |-> 0, d |-> 0]
    ELSE [kind |-> "-inf", n |-> 0, d |-> 0]

RECURSIVE SumSeq(_)
SumSeq(q) == IF q = << >> THEN 0 ELSE Head(q) + SumSeq(Tail(q))

MaxSeq(q) == CHOOSE v \in RangeOf(q) : \A u \in RangeOf(q) : u <= v

\* the aggregation function named func applied to the values of a group
ApplyFunc(func, q) == IF func = "max" THEN MaxSeq(q) ELSE SumSeq(q)

\* __series(df, attr) for a column name, as the sequence of its values:
\* ValueError for a string that is no column
series(df, attr) ==
    IF attr \in { "g", "x", "w" }
    THEN [status |-> "ok", values |-> [i \in 1..Len(df) |-> df[i][attr]]]
    ELSE [status |-> "ValueError", values |-> << >>]

\* np.ones(len(df))
ones(df) == [i \in 1..Len(df) |-> 1]

\* series *= weight
Weighted(values, weight) ==
    IF weight.given THEN [i \in 1..Len(values) |-> values[i] * weight.value] ELSE values

\* the rows of df2 whose index column holds key, in order
GroupRows(df, index, key) == { i \in 1..Len(df) : df[i][index.column] = key }

RECURSIVE Pick(_, _, _)
\* the values of a series at the positions in I, from position i on, in order
Pick(values, I, i) ==
    IF i > Len(values) THEN << >>
    ELSE IF i \in I THEN << values[i] >> \o Pick(values, I, i + 1)
    ELSE Pick(values, I, i + 1)

RECURSIVE SortedKeys(_)
\* the group keys in the order groupby returns them (sorted)
SortedKeys(K) ==
    IF K = {} THEN << >>
    ELSE LET least == IF "a" \in K THEN "a" ELSE CHOOSE k \in K : TRUE
         IN  << least >> \o SortedKeys(K \ { least })

\* df3: df2.groupby(index).agg(agg_dict) with an index, else df2 itself.
\* Each row: its key (the group, or the row's position) with the
\* numerator and the denominator of the metric.
groupby_agg(df, index, num, den, func, dfunc) ==
    IF index.given
    THEN LET keys == SortedKeys({ df[i][index.column] : i \in 1..Len(df) })
         IN  [j \in 1..Len(keys) |->
                [key |-> keys[j],
                 numerator |-> ApplyFunc(func, Pick(num, GroupRows(df, index, keys[j]), 1)),
                 denominator |-> ApplyFunc(dfunc, Pick(den, GroupRows(df, index, keys[j]), 1))]]
    ELSE [i \in 1..Len(df) |-> [key |-> "row", numerator |-> num[i], denominator |-> den[i]]]

\* for column, agg in columns.iteritems(): ... agg['func'] = 'sum'
\* the columns dictionary as the call leaves it
columns_after(columns) ==
    [c \in DOMAIN columns |->
        IF "func" \in DOMAIN columns[c] THEN columns[c]
        ELSE [key \in DOMAIN columns[c] \cup { "func" } |->
                IF key = "func" THEN "sum" ELSE columns[c][key]]]

\* the table as the call leaves it. numerator *= weight and denominator *=
\* weight multiply in place the series __series returned, which for a
\* column name is df[attr]; shares tells whether that series shares its
\* data with df (it depends on the dtypes and the pandas version).
df_after(df, agg, weight, shares) ==
    IF weight.given /\ shares
    THEN [i \in 1..Len(df) |->
            [g |-> df[i].g,
             x |-> IF "numerator" \in DOMAIN agg THEN df[i].x * weight.value ELSE df[i].x,
             w |-> IF "denominator" \in DOMAIN agg THEN df[i].w * weight.value ELSE df[i].w]]
    ELSE df

\* aggregate(df, columns, weight, index) for the one metric m of columns:
\* the frame df4 it returns, and df and columns as it leaves them
aggregate(df, columns, weight, index, shares) ==
    LET agg   == columns.m
        after == columns_after(columns).m
        num   == Weighted(IF "numerator" \in DOMAIN agg THEN series(df, agg.numerator).values
                          ELSE ones(df), weight)
        den   == IF "denominator" \in DOMAIN agg
                 THEN Weighted(series(df, agg.denominator).values, weight)
                 ELSE ones(df)
        dfunc == IF "denominator_func" \in DOMAIN after THEN after.denominator_func ELSE after.func
        df3   == groupby_agg(df, index, num, den, after.func, dfunc)
    IN  [status  |-> "ok",
         result  |-> [j \in 1..Len(df3) |->
                        [key |-> df3[j].key,
                         m |-> IF "denominator" \in DOMAIN agg
                               THEN Quotient(df3[j].numerator, df3[j].denominator)
                               ELSE Quotient(df3[j].numerator, 1)]],
         df      |-> df_after(df, agg, weight, shares),
         columns |-> columns_after(columns)]

NoAggregate == [status |-> "none", result |-> << >>, df |-> << >>, columns |-> << >>]

InitAggregate ==
    /\ InitStore /\ InitWorkers
    /\ arg \in [df : Tables, columns : ColumnSpecs, weight : Weights, index : Indexes]
    /\ out = NoAggregate

\* aggregate(arg.df, arg.columns, arg.weight, arg.index)
CallAggregate ==
    /\ out = NoAggregate
    /\ \E shares \in BOOLEAN :
          out' = aggregate(arg.df, arg.columns, arg.weight, arg.index, shares)
    /\ UNCHANGED <<store, dirExists, wpc, wdate, wdf, wpre, lastAgg, ret, arg>>

NextAggregate == CallAggregate

SpecAggregate == InitAggregate /\ [][NextAggregate]_vars

\* C11 (as claimed): with a denominator declared, the metric of a group
\* whose aggregated denominator is zero (all its w are 0) is the missing
\* value, whatever the numerator; never an infinity.
C11_ZeroDenominatorMissing ==
    (out # NoAggregate /\ arg.index.given /\ "denominator" \in DOMAIN arg.columns.m)
    => /\ out.status = "ok"
       /\ \A j \in 1..Len(out.result) :
             (\A i \in 1..Len(arg.df) : arg.df[i].g = out.result[j].key => arg.df[i].w = 0)
                => out.result[j].m.kind = "nan"

\* C12 (as claimed): without an index the whole (non-empty) table is one
\* group: a single row, func of the numerator over all rows divided by
\* func of the denominator over all rows.
C12_NoIndexOneGroup ==
    (out # NoAggregate /\ ~arg.index.given /\ Len(arg.df) > 0
       /\ DOMAIN arg.columns.m = { "numerator", "denominator", "func" } /\ ~arg.weight.given)
    => /\ out.status = "ok"
       /\ Len(out.result) = 1
       /\ out.result[1].m =
             Quotient(ApplyFunc(arg.columns.m.func, [i \in 1..Len(arg.df) |-> arg.df[i].x]),
                      ApplyFunc(arg.columns.m.func, [i \in 1..Len(arg.df) |-> arg.df[i].w]))

\* C13 (as claimed): after any call of aggregate, with or without weight,
\* the table and the columns dictionary of the caller are as they were.
C13_AggregatePure ==
    out # NoAggregate => (out.df = arg.df /\ out.columns = arg.columns)

----------------------------------------------------------------------------
(* top_k and precision_at_k (src/metrics.py) over short label and score    *)
(* sequences                                                               *)

MaxN == 3

MaxK == 4

\* a label after to_float: nan (unlabeled), 0 or 1
NaNLabel == [nan |-> TRUE, value |-> 0]

Label(v) == [nan |-> FALSE, value |-> v]

Labels == { NaNLabel, Label(0), Label(1) }

\* scores: two values, so that ties occur
Scores == { 1, 2 }

\* y_score.argsort(): the orders that sort the scores ascending; the order
\* of tied scores is the sort's choice
argsort(y_score) ==
    { p \in Permutations(1..Len(y_score)) :
        \A i, j \in 1..Len(y_score) : i < j => y_score[p[i]] <= y_score[p[j]] }

\* ranks[:k], the k lowest instead of the k highest
top_lowest(ranks, k) == { ranks[i] : i \in 1..(IF k < Len(ranks) THEN k ELSE Len(ranks)) }

\* ranks[-k:] for k >= 1: the last k positions of ranks, all of them when
\* k exceeds its length
top(ranks, k) ==
    { ranks[i] : i \in (IF k < Len(ranks) THEN Len(ranks) - k + 1 ELSE 1)..Len(ranks) }

RECURSIVE SumOver(_, _)
\* y_true[I].sum(), nan labels left out
SumOver(y_true, I) ==
    IF I = {} THEN 0
    ELSE LET i == CHOOSE i \in I : TRUE
         IN  (IF y_true[i].nan THEN 0 ELSE y_true[i].value) + SumOver(y_true, I \ { i })

\* the positions of the labeled examples: labeled = ~np.isnan(y_true)
labeled(y_true) == { i \in 1..Len(y_true) : ~y_true[i].nan }

RECURSIVE Positions(_, _)
\* the positions in I from i on, ascending: the order boolean indexing keeps
Positions(I, i) ==
    IF I = {} THEN << >>
    ELSE IF i \in I THEN << i >> \o Positions(I \ { i }, i + 1)
    ELSE Positions(I, i + 1)

NoTopK == [status |-> "none", n |-> 0, d |-> 0]

\* top_k(y_true, y_score, k, extrapolate): the set of its possible results
top_k(y_true, y_score, k, extrapolate) ==
    IF Len(y_true) # Len(y_score)
      THEN { [NoTopK EXCEPT !.status = "ValueError_lengths"] }
    ELSE IF k = 0
      THEN { [NoTopK EXCEPT !.status = "ok"] }
    ELSE IF ~extrapolate /\ k > Cardinality(labeled(y_true))
      THEN { [NoTopK EXCEPT !.status = "ValueError_k"] }
    ELSE IF extrapolate
      THEN { [status |-> "ok",
              n |-> SumOver(y_true, top(ranks, k) \cap labeled(y_true)),
              d |-> Cardinality(top(ranks, k) \cap labeled(y_true))] : ranks \in argsort(y_score) }
    ELSE LET kept == Positions(labeled(y_true), 1)   \* y_true[labeled], y_score[labeled]
             yt   == [j \in 1..Len(kept) |-> y_true[kept[j]]]
             ys   == [j \in 1..Len(kept) |-> y_score[kept[j]]]
         IN  { [status |-> "ok", n |-> SumOver(yt, top(ranks, k)), d |-> k] : ranks \in argsort(ys) }

NaN == [kind |-> "nan", n |-> 0, d |-> 0]

NoMetric == [op |-> "none", status |-> "none", n |-> 0, d |-> 0, p |-> NaN, bounds |-> <<NaN, NaN>>]

\* precision_at_k(y_true, y_score, k, extrapolate): the set of its possible
\* results; the bounds are returned when extrapolate is true
precision_at_k(y_true, y_score, k, extrapolate) ==
    { IF t.status # "ok"
      THEN [NoMetric EXCEPT !.op = "precision_at_k", !.status = t.status]
      ELSE [op |-> "precision_at_k", status |-> "ok", n |-> t.n, d |-> t.d,
            p |-> IF t.d # 0 THEN Quotient(t.n, t.d) ELSE NaN,
            bounds |-> IF extrapolate /\ k # 0
                       THEN <<Quotient(t.n, k), Quotient(t.n + k - t.d, k)>>
                       ELSE <<NaN, NaN>>]
      : t \in top_k(y_true, y_score, k, extrapolate) }

InitMetrics ==
    /\ InitStore /\ InitWorkers
    /\ arg \in [y_true : SeqsUpTo(Labels, MaxN), y_score : SeqsUpTo(Scores, MaxN),
                 k : 0..MaxK, extrapolate : BOOLEAN]
    /\ out = NoMetric

\* top_k(arg.y_true, arg.y_score, arg.k, arg.extrapolate)
CallTopK ==
    /\ out = NoMetric
    /\ \E t \in top_k(arg.y_true, arg.y_score, arg.k, arg.extrapolate) :
          out' = [NoMetric EXCEPT !.op = "top_k", !.status = t.status, !.n = t.n, !.d = t.d]
    /\ UNCHANGED <<store, dirExists, wpc, wdate, wdf, wpre, lastAgg, ret, arg>>

\* precision_at_k(arg.y_true, arg.y_score, arg.k, arg.extrapolate)
CallPrecisionAtK ==
    /\ out = NoMetric
    /\ out' \in precision_at_k(arg.y_true, arg.y_score, arg.k, arg.extrapolate)
    /\ UNCHANGED <<store, dirExists, wpc, wdate, wdf, wpre, lastAgg, ret, arg>>

NextMetrics == CallTopK \/ CallPrecisionAtK

SpecMetrics == InitMetrics /\ [][NextMetrics]_vars

\* the sets of k highest-scoring examples among those in I (all of I when
\* it has fewer than k): no example left out scores higher than one taken
HighestK(I, k) ==
    { T \in SUBSET I :
        /\ Cardinality(T) = (IF k < Cardinality(I) THEN k ELSE Cardinality(I))
        /\ \A i \in T, j \in I \ T : arg.y_score[i] >= arg.y_score[j] }

\* C14 (as claimed): with extrapolate the bounds are (n/k, (n+u)/k) for
\* every k >= 1, also k above the number of examples, n the labeled
\* positives and u the unlabeled examples among the k highest-scoring
\* ones; they are equal exactly when all of those are labeled; for k = 0
\* both are missing.
C14_ExtrapolatedBounds ==
    (out.op = "precision_at_k" /\ arg.extrapolate /\ Len(arg.y_true) = Len(arg.y_score))
    => /\ out.status = "ok"
       /\ arg.k = 0 => out.bounds = <<NaN, NaN>>
       /\ arg.k >= 1 =>
             \E T \in HighestK(1..Len(arg.y_true), arg.k) :
                LET n == SumOver(arg.y_true, T)
                    u == Cardinality(T \ labeled(arg.y_true))
                IN  /\ out.bounds = <<Quotient(n, arg.k), Quotient(n + u, arg.k)>>
                    /\ (out.bounds[1] = out.bounds[2]) <=> (u = 0)

\* C15: top_k fails on sequences of different lengths whatever else it is
\* given; with extrapolate false and equal lengths it fails when k exceeds
\* the number of labeled examples, and for k from 1 to that number it
\* returns k with the number of positives among k highest-scoring labeled
\* examples.
C15_TopKLabeled ==
    out.op = "top_k" =>
        IF Len(arg.y_true) # Len(arg.y_score)
        THEN out.status = "ValueError_lengths"
        ELSE (~arg.extrapolate /\ arg.k >= 1) =>
               IF arg.k > Cardinality(labeled(arg.y_true))
               THEN out.status = "ValueError_k"
               ELSE /\ out.status = "ok"
                    /\ out.d = arg.k
                    /\ \E T \in HighestK(labeled(arg.y_true), arg.k) :
                          out.n = Cardinality({ i \in T : arg.y_true[i] = Label(1) })

\* C15 witness: top_k without extrapolate has returned for labels with an
\* unlabeled example that outscores a labeled one, k below the number of
\* labeled examples, a positive inside the top k and one outside.
C15_Witness ==
    /\ out.op = "top_k" /\ out.status = "ok" /\ ~arg.extrapolate
    /\ arg.k >= 1 /\ arg.k < Cardinality(labeled(arg.y_true))
    /\ out.n >= 1 /\ out.n < SumOver(arg.y_true, labeled(arg.y_true))
    /\ \E i, j \in 1..Len(arg.y_true) :
          arg.y_true[i].nan /\ ~arg.y_true[j].nan /\ arg.y_score[i] > arg.y_score[j]

====
